---- MODULE Spec2Model ----
(***************************************************************************)
(* Model of mne_g3d/viz.py: plot_brain_mesh, plot_hemisphere_mesh and      *)
(* plot_source_estimates with its two callbacks slider_handler and         *)
(* on_update.                                                              *)
(*                                                                         *)
(* Numbers are exact rationals <<numerator, denominator>> with a positive  *)
(* denominator, so the linear ramps k * x + b are computed as the code     *)
(* computes them, without rounding.                                        *)
(***************************************************************************)
EXTENDS Integers, Sequences, FiniteSets, TLC

VARIABLES phase, args, exc, views, hemis, cmap, k, b, meshes, hemi_meshes,
          slider, label, children, cbar_marks, ret

vars == <<phase, args, exc, views, hemis, cmap, k, b, meshes, hemi_meshes,
          slider, label, children, cbar_marks, ret>>

(* ------------------------------ bounds -------------------------------- *)
\* entries of a colormap's lookup table (rgb_cmap.N)
CmapN == 4
\* largest control point / input value
MaxCtrl == 3
\* number of time samples of the source estimate (len(stc.times))
NTimes == 2
\* longest list of views passed to plot_source_estimates
MaxViews == 2
\* vertices of the left and of the right hemisphere surface
NLh == 1
NRh == 1

(* ----------------------------- rationals ------------------------------ *)
Abs(x) == IF x < 0 THEN -x ELSE x

RECURSIVE GCD(_, _)
GCD(x, y) == IF y = 0 THEN x ELSE GCD(y, x % y)

Rat(n, d) ==
    LET g == GCD(Abs(n), Abs(d))
        s == IF d < 0 THEN -1 ELSE 1
    IN  <<(s * n) \div g, (s * d) \div g>>

IntR(n) == <<n, 1>>
RAdd(x, y) == Rat(x[1] * y[2] + y[1] * x[2], x[2] * y[2])
RSub(x, y) == Rat(x[1] * y[2] - y[1] * x[2], x[2] * y[2])
RMul(x, y) == Rat(x[1] * y[1], x[2] * y[2])
RDiv(x, y) == Rat(x[1] * y[2], x[2] * y[1])
RNeg(x) == <<-x[1], x[2]>>
RLt(x, y) == x[1] * y[2] < y[1] * x[2]
RLe(x, y) == x[1] * y[2] <= y[1] * x[2]
RAbs(x) == <<Abs(x[1]), x[2]>>
\* int(x) of a rational, rounding towards minus infinity
RFloor(x) == x[1] \div x[2]

Zero == IntR(0)
One == IntR(1)

(* ------------------------- exceptions, values ------------------------- *)
NoExc == [type |-> "none", line |-> 0]
Raise(t, l) == [type |-> t, line |-> l]

\* Python's None in a place that otherwise holds a mesh widget
NoneMesh == [none |-> TRUE, color |-> "", h |-> ""]
\* Python's None in a place that otherwise holds an array of numbers
NoneData == [none |-> TRUE, data |-> <<>>]
SomeData(d) == [none |-> FALSE, data |-> d]

HemiLen(h) == IF h = "lh" THEN NLh ELSE NRh
NVerts == NLh + NRh
Times == 0 .. (NTimes - 1)

\* value of the morphed source estimate at time index t, vertex v (left
\* hemisphere vertices first): values of both signs within -MaxCtrl ..
\* MaxCtrl that differ across time and vertex
DataAt(t, v) == ((2 * t + 3 * v) % (2 * MaxCtrl + 1)) - MaxCtrl

\* stc_data[:len(lh)] and stc_data[len(lh):]
HemiSlice(d, h) ==
    IF h = "lh" THEN SubSeq(d, 1, NLh) ELSE SubSeq(d, NLh + 1, Len(d))

Min(S) == CHOOSE x \in S : \A y \in S : x <= y
Max(S) == CHOOSE x \in S : \A y \in S : x >= y
Range(f) == {f[i] : i \in DOMAIN f}

(* ----------------------------- colormaps ------------------------------ *)
\* results of mne's _limits_to_control_points: three control points in
\* ascending order, taken from the magnitudes of the data
CtrlTriples ==
    {c \in (0 .. MaxCtrl) \X (0 .. MaxCtrl) \X (0 .. MaxCtrl) :
        c[1] <= c[2] /\ c[2] <= c[3] /\ c[3] > 0}

\* scale_pts as the library pairs them with ctrl_pts (the same pairing is
\* spelled out in on_update)
ScalePts(kind, ctrl_pts) ==
    IF kind = "hot" THEN ctrl_pts ELSE <<-ctrl_pts[3], 0, ctrl_pts[3]>>

\* rgb_cmap(np.arange(rgb_cmap.N)): the N RGBA rows of the base colormap,
\* all opaque.  The 'mne' colormap is built from the control points.
BaseLut(kind, ctrl_pts) ==
    [i \in 1 .. CmapN |->
        [map |-> kind,
         ctrl |-> IF kind = "hot" THEN <<0, 0, 0>> ELSE ctrl_pts,
         idx |-> i - 1,
         a |-> One]]

\* cmap[:, -1] = alphas
SetAlphas(lut, alphas) ==
    [i \in 1 .. CmapN |-> [lut[i] EXCEPT !.a = alphas[i]]]

\* ListedColormap.__call__ on a float: row int(x * N), with values below
\* the table mapped to the first row and values above it to the last
CmapCall(lut, x) ==
    LET i == RFloor(RMul(x, IntR(CmapN)))
        j == IF i < 0 THEN 0 ELSE IF i > CmapN - 1 THEN CmapN - 1 ELSE i
    IN  lut[j + 1]

CmapCallArr(lut, xs) == [i \in DOMAIN xs |-> CmapCall(lut, xs[i])]

\* k * data + b on an array of integers
Scale(kk, bb, d) == [i \in DOMAIN d |-> RAdd(RMul(kk, IntR(d[i])), bb)]

\* HotAlphas with the sign of b lost: b = ctrl_pts[0] * k
HotAlphas_PlusB(ctrl_pts, scale_pts) ==
    LET step == RDiv(IntR(scale_pts[3]), IntR(CmapN))
        kk == RDiv(One, IntR(ctrl_pts[2] - ctrl_pts[1]))
        bb == RMul(IntR(ctrl_pts[1]), kk)
    IN  [i \in 1 .. CmapN |->
            LET curr_pos == RMul(IntR(i - 1), step)
            IN  IF RLt(curr_pos, IntR(ctrl_pts[1])) THEN Zero
                ELSE IF RLe(IntR(ctrl_pts[1]), curr_pos)
                        /\ RLt(curr_pos, IntR(ctrl_pts[2]))
                     THEN RAdd(RMul(kk, curr_pos), bb)
                     ELSE One]

\* alpha table of the one-sided branch of plot_brain_mesh
HotAlphas(ctrl_pts, scale_pts) ==
    LET step == RDiv(IntR(scale_pts[3]), IntR(CmapN))
        kk == RDiv(One, IntR(ctrl_pts[2] - ctrl_pts[1]))
        bb == RNeg(RMul(IntR(ctrl_pts[1]), kk))
    IN  [i \in 1 .. CmapN |->
            LET curr_pos == RMul(IntR(i - 1), step)
            IN  IF RLt(curr_pos, IntR(ctrl_pts[1])) THEN Zero
                ELSE IF RLe(IntR(ctrl_pts[1]), curr_pos)
                        /\ RLt(curr_pos, IntR(ctrl_pts[2]))
                     THEN RAdd(RMul(kk, curr_pos), bb)
                     ELSE One]

\* MneAlphas with the positive slope used on the negative side as well
MneAlphas_OneSlope(ctrl_pts, scale_pts) ==
    LET step == RDiv(IntR(scale_pts[3] - scale_pts[1]), IntR(CmapN))
        k_pos == RDiv(One, IntR(ctrl_pts[2] - ctrl_pts[1]))
        bb == RNeg(RMul(IntR(ctrl_pts[1]), k_pos))
    IN  [i \in 1 .. CmapN |->
            LET curr_pos == RAdd(RMul(IntR(i - 1), step), IntR(scale_pts[1]))
            IN  IF RLt(IntR(-ctrl_pts[1]), curr_pos)
                   /\ RLt(curr_pos, IntR(ctrl_pts[1])) THEN Zero
                ELSE IF RLe(IntR(ctrl_pts[1]), curr_pos)
                        /\ RLt(curr_pos, IntR(ctrl_pts[2]))
                     THEN RAdd(RMul(k_pos, curr_pos), bb)
                ELSE IF RLe(curr_pos, IntR(-ctrl_pts[1]))
                        /\ RLt(IntR(-ctrl_pts[2]), curr_pos)
                     THEN RAdd(RMul(k_pos, curr_pos), bb)
                     ELSE One]

\* alpha table of the two-tailed branch of plot_brain_mesh
MneAlphas(ctrl_pts, scale_pts) ==
    LET step == RDiv(IntR(scale_pts[3] - scale_pts[1]), IntR(CmapN))
        k_pos == RDiv(One, IntR(ctrl_pts[2] - ctrl_pts[1]))
        k_neg == RNeg(k_pos)
        bb == RNeg(RMul(IntR(ctrl_pts[1]), k_pos))
    IN  [i \in 1 .. CmapN |->
            LET curr_pos == RAdd(RMul(IntR(i - 1), step), IntR(scale_pts[1]))
            IN  IF RLt(IntR(-ctrl_pts[1]), curr_pos)
                   /\ RLt(curr_pos, IntR(ctrl_pts[1])) THEN Zero
                ELSE IF RLe(IntR(ctrl_pts[1]), curr_pos)
                        /\ RLt(curr_pos, IntR(ctrl_pts[2]))
                     THEN RAdd(RMul(k_pos, curr_pos), bb)
                ELSE IF RLe(curr_pos, IntR(-ctrl_pts[1]))
                        /\ RLt(IntR(-ctrl_pts[2]), curr_pos)
                     THEN RAdd(RMul(k_neg, curr_pos), bb)
                     ELSE One]

\* np.clip(alphas, 0, 1) returns a new array, which the code drops: the
\* table is written into the colormap as the loops left it
PbmAlphas(kind, ctrl_pts, scale_pts) ==
    IF kind = "hot" THEN HotAlphas(ctrl_pts, scale_pts)
    ELSE MneAlphas(ctrl_pts, scale_pts)

(* --------------------------- plot_brain_mesh -------------------------- *)
\* morph_mat.dot(stc.data[:, t]): one value per surface vertex
StcData(t) == [v \in 1 .. NVerts |-> DataAt(t, v)]

\* the return value of a call that has not returned
NoRet == [returned |-> FALSE, value |-> "", rh_mesh |-> NoneMesh,
          lh_mesh |-> NoneMesh]

NoLabel == [assigned |-> FALSE, value |-> 0]

\* arguments of plot_brain_mesh; lim is what _limits_to_control_points
\* returns for the activation data
PbmArgs ==
    {[fn |-> "plot_brain_mesh", rh_vertices |-> rv, rh_faces |-> rf,
      lh_vertices |-> lv, lh_faces |-> lf, act_data |-> ad,
      kind |-> kd, ctrl_pts |-> c] :
        rv \in BOOLEAN, rf \in BOOLEAN, lv \in BOOLEAN, lf \in BOOLEAN,
        ad \in {NoneData, SomeData(StcData(0))},
        kd \in {"hot", "mne"}, c \in CtrlTriples}

\* plot_hemisphere_mesh: the surface mesh and, with act_colors, its overlay
MeshWidget(h, color) == [none |-> FALSE, color |-> color, h |-> h]
Overlay(h, view, act_colors) == [h |-> h, view |-> view, color |-> act_colors]

\* the hemisphere's vertices and faces were both passed
Given(a, h) ==
    IF h = "rh" THEN a.rh_vertices /\ a.rh_faces
    ELSE a.lh_vertices /\ a.lh_faces

\* first exception plot_brain_mesh raises on arguments a, or NoExc
PbmExc(a) ==
    IF ~a.act_data.none /\ ~a.lh_vertices THEN Raise("TypeError", 145)
    ELSE IF a.act_data.none /\ Given(a, "rh")
         THEN Raise("UnboundLocalError", 161)
    ELSE IF a.act_data.none /\ Given(a, "lh")
         THEN Raise("UnboundLocalError", 170)
    ELSE NoExc

plot_brain_mesh(a) ==
    LET has_act == ~a.act_data.none
        scale_pts == ScalePts(a.kind, a.ctrl_pts)
        lut == SetAlphas(BaseLut(a.kind, a.ctrl_pts),
                         PbmAlphas(a.kind, a.ctrl_pts, scale_pts))
        d == a.act_data.data
        dt_min == Min(Range(d))
        dt_max == Max(Range(d))
        kk == RDiv(One, IntR(dt_max - dt_min))
        bb == RSub(One, RMul(kk, IntR(dt_max)))
        e == PbmExc(a)
        colors(h) == CmapCallArr(lut, Scale(kk, bb, HemiSlice(d, h)))
        made == SelectSeq(<<"rh", "lh">>, LAMBDA h : Given(a, h))
    IN  /\ phase = "idle"
        /\ phase' = "pbm"
        /\ args' = a
        /\ exc' = e
        /\ cmap' = IF has_act THEN lut ELSE <<>>
        /\ k' = IF has_act THEN kk ELSE Zero
        /\ b' = IF has_act THEN bb ELSE Zero
        /\ meshes' = IF e = NoExc /\ has_act
                     THEN [n \in 1 .. Len(made) |->
                              Overlay(made[n], "", colors(made[n]))]
                     ELSE <<>>
        /\ ret' = IF e # NoExc THEN NoRet
                  ELSE [returned |-> TRUE, value |-> "tuple",
                        rh_mesh |-> IF Given(a, "rh")
                                    THEN MeshWidget("rh", "grey")
                                    ELSE NoneMesh,
                        lh_mesh |-> IF Given(a, "lh")
                                    THEN MeshWidget("lh", "grey")
                                    ELSE NoneMesh]
        /\ children' = IF e = NoExc THEN <<[w |-> "fig", sub |-> <<>>]>>
                       ELSE <<>>
        /\ UNCHANGED <<views, hemis, hemi_meshes, slider, label, cbar_marks>>

(* ------------------------ plot_source_estimates ----------------------- *)
\* keys of views_dict
ViewNames == {"lat", "med", "fos", "cau", "dor", "ven", "fro", "par"}

\* names a caller passes as views: two valid ones and one that is unknown.
\* The other arguments checked before the figures are built are left at
\* their defaults (colormap a string, cortex 'classic', figure None).
ViewPool == {"lat", "med", "xyz"}

RECURSIVE SeqsUpTo(_, _)
SeqsUpTo(S, n) ==
    IF n = 0 THEN {<<>>}
    ELSE LET shorter == SeqsUpTo(S, n - 1)
         IN  shorter \cup {Append(q, x) : q \in shorter, x \in S}

\* the lists of views tried: every list that starts with 'lat' and goes on
\* with 'lat' again, with another view or with an unknown name, the empty
\* list, and a list that starts with an unknown name
ViewLists ==
    {q \in SeqsUpTo(ViewPool, MaxViews) :
        /\ Len(q) > 0 => q[1] = "lat"
        /\ \A i \in 1 .. Len(q) : (i < Len(q) => q[i] # "xyz")}
    \cup {<<"xyz">>}

\* the views argument: a single name, or a list or tuple of names
ViewsArgs ==
    {[tag |-> "str", name |-> n, items |-> <<>>] : n \in {"med", "xyz"}}
    \cup {[tag |-> "list", name |-> "", items |-> q] : q \in ViewLists}
    \cup {[tag |-> "tuple", name |-> "", items |-> <<"med", "lat">>]}

\* control points the library returns to plot_source_estimates: fmin < fmid
\* < fmax
PseCtrlTriples == {<<0, 1, MaxCtrl>>}

\* time_label is what _handle_time returns: 'auto' has become a format
\* string, anything else is passed through.  A call whose stc is no
\* SourceEstimate looks at no other argument.
PseArgs ==
    {[fn |-> "plot_source_estimates", stc_ok |-> so, views |-> v,
      hemi |-> h, time_label |-> tl, time_viewer |-> tv, colorbar |-> cb,
      initial_time |-> it, kind |-> kd, ctrl_pts |-> c] :
        so \in BOOLEAN, v \in ViewsArgs,
        h \in {"lh", "both", "split", "xx"},
        tl \in {"str", "callable", "None"},
        tv \in BOOLEAN, cb \in BOOLEAN,
        it \in {-1, NTimes - 1},
        kd \in {"hot", "mne"}, c \in PseCtrlTriples}

\* if views is neither a list nor a tuple: views = (views,)
NormViews(v) == IF v.tag \in {"list", "tuple"} THEN v.items ELSE <<v.name>>

\* ViewsInvalid looking at the first view only
ViewsInvalid_FirstOnly(vs) == Len(vs) > 0 /\ vs[1] \notin ViewNames

\* some view of the sequence is no key of views_dict
ViewsInvalid(vs) == \E i \in 1 .. Len(vs) : vs[i] \notin ViewNames

\* hemis: the hemispheres to draw
HemisOf(hemi) ==
    IF hemi \in {"both", "split"} THEN <<"lh", "rh">> ELSE <<hemi>>

\* time_idx: 0 without initial_time (-1 stands for None), else the sample
\* closest to it (times are the sample indices)
TimeIdx(it) ==
    IF it = -1 THEN 0
    ELSE CHOOSE t \in Times :
            /\ \A u \in Times : Abs(t - it) <= Abs(u - it)
            /\ \A u \in Times : Abs(u - it) = Abs(t - it) => t <= u

\* _calculate_cmap(lim_cmap, alpha, ctrl_pts, scale_pts): the colormap with
\* the alpha ramp over the control points
calculate_cmap(kind, ctrl_pts, scale_pts) ==
    SetAlphas(BaseLut(kind, ctrl_pts), PbmAlphas(kind, ctrl_pts, scale_pts))

\* k = 1 / (dt_max - dt_min)
KOf(dt_min, dt_max) == RDiv(One, IntR(dt_max - dt_min))
\* b = 1 - k * dt_max
BOf(kk, dt_max) == RSub(One, RMul(kk, IntR(dt_max)))

\* cmap(k * data + b) for hemisphere h at time index t; np.clip's result is
\* dropped, the colormap call itself clamps
ActColors(lut, kk, bb, t, h) ==
    CmapCallArr(lut, Scale(kk, bb, HemiSlice(StcData(t), h)))

\* the (view, hemisphere) pairs in the order the two nested loops visit
\* them, without those whose data slice is empty
LoopPairs(vs, hs) ==
    LET all == [n \in 1 .. (Len(vs) * Len(hs)) |->
                   [view |-> vs[((n - 1) \div Len(hs)) + 1],
                    h |-> hs[((n - 1) % Len(hs)) + 1]]]
    IN  SelectSeq(all, LAMBDA p : HemiLen(p.h) > 0)

\* hemi_meshes[h + '_' + view] = hemi_mesh, for each pair in loop order: a
\* later pair with the same key replaces the earlier entry
HemiMeshes(pairs) ==
    LET keys == {<<pairs[n].h, pairs[n].view>> : n \in 1 .. Len(pairs)}
    IN  [key \in keys |->
            Max({n \in 1 .. Len(pairs) :
                    <<pairs[n].h, pairs[n].view>> = key})]

\* figs, as the children of the widget container: one figure per view, or
\* for hemi = 'split' one row of figures per view
FigWidgets(vs, hemi) ==
    [i \in 1 .. Len(vs) |->
        IF hemi = "split" THEN [w |-> "hbox", sub |-> <<"lh", "rh">>]
        ELSE [w |-> "fig", sub |-> <<vs[i]>>]]

\* the colours of the colorbar: cmap(np.linspace(0, 1, cmap.N)) blended
\* over the grey background; a fully transparent entry shows the background
Blend(e) ==
    IF e.a = Zero
    THEN [map |-> "background", ctrl |-> <<0, 0, 0>>, idx |-> 0, a |-> Zero]
    ELSE e

CbarColors(lut) ==
    [j \in 1 .. CmapN |-> Blend(CmapCall(lut, Rat(j - 1, CmapN - 1)))]

ControlBox == [w |-> "control", sub |-> <<"play", "slider", "label">>]
InfoWidget ==
    [w |-> "info_widget",
     sub |-> <<"control", "cbar_fig", "input_fmin", "input_fmid",
               "input_fmax", "button_upd_mesh">>]

\* first exception plot_source_estimates raises on arguments a, or NoExc
PseExc(a) ==
    IF ~a.stc_ok THEN Raise("ValueError", 349)
    ELSE IF ViewsInvalid(NormViews(a.views)) THEN Raise("ValueError", 365)
    ELSE IF a.hemi \notin {"lh", "rh", "split", "both"}
         THEN Raise("ValueError", 387)
    ELSE IF a.time_viewer /\ a.time_label \notin {"str", "callable"}
         THEN Raise("UnboundLocalError", 565)
    ELSE NoExc

\* children of the widget container when the call ends
PseChildren(a, vs) ==
    LET base == <<[w |-> "title", sub |-> <<>>]>> \o FigWidgets(vs, a.hemi)
    IN  IF ~a.time_viewer \/ PseExc(a) # NoExc THEN base
        ELSE IF a.colorbar THEN Append(base, InfoWidget)
        ELSE Append(base, ControlBox)

plot_source_estimates(a) ==
    LET e == PseExc(a)
        \* the checks of the arguments passed: the figures get built
        built == e = NoExc \/ e.line = 565
        vs == NormViews(a.views)
        hs == HemisOf(a.hemi)
        time_idx == TimeIdx(a.initial_time)
        scale_pts == ScalePts(a.kind, a.ctrl_pts)
        lut == calculate_cmap(a.kind, a.ctrl_pts, scale_pts)
        kk == KOf(scale_pts[1], scale_pts[3])
        bb == BOf(kk, scale_pts[3])
        pairs == LoopPairs(vs, hs)
    IN  /\ phase = "idle"
        /\ phase' = "pse"
        /\ args' = a
        /\ exc' = e
        /\ views' = IF a.stc_ok THEN vs ELSE <<>>
        /\ hemis' = IF built THEN hs ELSE <<>>
        /\ cmap' = IF built THEN lut ELSE <<>>
        /\ k' = IF built THEN kk ELSE Zero
        /\ b' = IF built THEN bb ELSE Zero
        /\ meshes' = IF built
                     THEN [n \in 1 .. Len(pairs) |->
                              Overlay(pairs[n].h, pairs[n].view,
                                      ActColors(lut, kk, bb, time_idx,
                                                pairs[n].h))]
                     ELSE <<>>
        /\ hemi_meshes' = IF built THEN HemiMeshes(pairs) ELSE <<>>
        /\ slider' = IF built /\ a.time_viewer THEN time_idx ELSE 0
        /\ label' = IF e = NoExc /\ a.time_viewer
                    THEN [assigned |-> TRUE, value |-> time_idx]
                    ELSE NoLabel
        /\ children' = IF built THEN PseChildren(a, vs) ELSE <<>>
        /\ cbar_marks' = IF e = NoExc /\ a.time_viewer /\ a.colorbar
                         THEN CbarColors(lut) ELSE <<>>
        \* the function ends without a return statement
        /\ ret' = IF e = NoExc
                  THEN [returned |-> TRUE, value |-> "None",
                        rh_mesh |-> NoneMesh, lh_mesh |-> NoneMesh]
                  ELSE NoRet

\* the overlay meshes the two nested loops of the callbacks assign to
Recolor(ms, hm, vs, hs, lut, kk, bb, t) ==
    [n \in 1 .. Len(ms) |->
        IF \E i \in 1 .. Len(vs), j \in 1 .. Len(hs) :
              /\ <<hs[j], vs[i]>> \in DOMAIN hm
              /\ hm[<<hs[j], vs[i]>>] = n
        THEN [ms[n] EXCEPT !.color = ActColors(lut, kk, bb, t, ms[n].h)]
        ELSE ms[n]]

\* the callbacks are registered once the time viewer is set up
SliderLive ==
    phase = "pse" /\ ret.returned /\ args.time_viewer
ButtonLive == SliderLive /\ args.colorbar

slider_handler(new) ==
    /\ SliderLive
    /\ new # slider
    /\ slider' = new
    /\ meshes' = Recolor(meshes, hemi_meshes, views, hemis, cmap, k, b, new)
    /\ label' = [label EXCEPT !.value = new]
    /\ exc' = NoExc
    /\ UNCHANGED <<phase, args, views, hemis, cmap, k, b, hemi_meshes,
                   children, cbar_marks, ret>>

\* values typed into the three bounded inputs: whole numbers from 1 on
\* within the [dt_min, dt_max] of the call
InputVals ==
    LET sp == ScalePts(args.kind, args.ctrl_pts)
    IN  {x \in 1 .. MaxCtrl : sp[1] <= x /\ x <= sp[3]}

\* what the inputs hold at a click: the typed values, or the control points
\* of the call they were created with
InputTriples == (InputVals \X InputVals \X InputVals) \cup {args.ctrl_pts}

\* BadLimits comparing fmin with fmax only
BadLimits_EndsOnly(f) == ~(f[1] < f[3])

\* not ctrl_pts[0] < ctrl_pts[1] < ctrl_pts[2]
BadLimits(f) == ~(f[1] < f[2] /\ f[2] < f[3])

on_update(f) ==
    LET scale_pts == ScalePts(args.kind, f)
        lut == calculate_cmap(args.kind, f, scale_pts)
        kk == KOf(scale_pts[1], scale_pts[3])
        bb == BOf(kk, scale_pts[3])
    IN  /\ ButtonLive
        /\ IF BadLimits(f)
           THEN /\ exc' = Raise("ValueError", 630)
                /\ UNCHANGED <<cmap, k, b, meshes, cbar_marks>>
           ELSE /\ exc' = NoExc
                /\ cmap' = lut
                /\ k' = kk
                /\ b' = bb
                /\ meshes' = Recolor(meshes, hemi_meshes, views, hemis,
                                     lut, kk, bb, slider)
                /\ cbar_marks' = CbarColors(lut)
        /\ UNCHANGED <<phase, args, views, hemis, hemi_meshes, slider,
                       label, children, ret>>

Init ==
    /\ phase = "idle"
    /\ args = [fn |-> "none"]
    /\ exc = NoExc
    /\ views = <<>>
    /\ hemis = <<>>
    /\ cmap = <<>>
    /\ k = Zero
    /\ b = Zero
    /\ meshes = <<>>
    /\ hemi_meshes = <<>>
    /\ slider = 0
    /\ label = NoLabel
    /\ children = <<>>
    /\ cbar_marks = <<>>
    /\ ret = NoRet

CallPlotBrainMesh == \E a \in PbmArgs : plot_brain_mesh(a)

CallPlotSourceEstimates == \E a \in PseArgs : plot_source_estimates(a)
SliderChange == \E new \in Times : slider_handler(new)
ClickUpdate ==
    /\ ButtonLive
    /\ \E f \in InputTriples : on_update(f)

Next ==
    \/ CallPlotBrainMesh
    \/ CallPlotSourceEstimates
    \/ SliderChange
    \/ ClickUpdate

Spec == Init /\ [][Next]_vars

(* ------------------------------ properties ---------------------------- *)
\* position in data units of colormap row i, one-sided and two-tailed
HotPos(i, c) == Rat((i - 1) * c[3], CmapN)
MnePos(i, c) == Rat((i - 1) * 2 * c[3] - c[3] * CmapN, CmapN)

\* the ramp over a magnitude m: 0 below c[1], linear on [c[1], c[2]), then 1
Ramp(m, c) ==
    IF RLt(m, IntR(c[1])) THEN Zero
    ELSE IF RLt(m, IntR(c[2]))
         THEN Rat(m[1] - c[1] * m[2], (c[2] - c[1]) * m[2])
         ELSE One

In01(x) == RLe(Zero, x) /\ RLe(x, One)

\* plot_brain_mesh has built a colormap from activation data
PbmHasCmap == phase = "pbm" /\ ~args.act_data.none

\* C7: in plot_brain_mesh with ctrl_pts[0] < ctrl_pts[1], every alpha written
\* into the colormap is within [0, 1] in both branches, and in the one-sided
\* branch the alpha is 0 below ctrl_pts[0], rises linearly on [ctrl_pts[0],
\* ctrl_pts[1]), is 1 from ctrl_pts[1] on, and never decreases with the index
C7_AlphaRange ==
    (PbmHasCmap /\ args.ctrl_pts[1] < args.ctrl_pts[2]) =>
        /\ \A i \in 1 .. CmapN : In01(cmap[i].a)
        /\ args.kind = "hot" =>
              /\ \A i \in 1 .. CmapN :
                    cmap[i].a = Ramp(HotPos(i, args.ctrl_pts), args.ctrl_pts)
              /\ \A i \in 1 .. (CmapN - 1) : RLe(cmap[i].a, cmap[i + 1].a)

\* a one-sided colormap whose table has a transparent row, a row on the
\* ramp and an opaque row
C7_Witness ==
    /\ PbmHasCmap
    /\ args.kind = "hot"
    /\ args.ctrl_pts[1] < args.ctrl_pts[2]
    /\ \E i \in 1 .. CmapN : cmap[i].a = Zero
    /\ \E i \in 1 .. CmapN : RLt(Zero, cmap[i].a) /\ RLt(cmap[i].a, One)
    /\ \E i \in 1 .. CmapN : cmap[i].a = One

\* C8: in the two-tailed branch of plot_brain_mesh the alpha of position x
\* is the ramp of |x| (0 below ctrl_pts[0], (|x| - ctrl_pts[0]) /
\* (ctrl_pts[1] - ctrl_pts[0]) up to ctrl_pts[1], then 1), so x and -x get
\* the same alpha
C8_AlphaSymmetric ==
    (PbmHasCmap /\ args.kind = "mne") =>
        /\ \A i \in 1 .. CmapN :
              cmap[i].a = Ramp(RAbs(MnePos(i, args.ctrl_pts)), args.ctrl_pts)
        /\ \A i, j \in 1 .. CmapN :
              MnePos(i, args.ctrl_pts) = RNeg(MnePos(j, args.ctrl_pts))
                  => cmap[i].a = cmap[j].a

\* a two-tailed colormap with a negative position on the ramp and its
\* mirror image among the positions
C8_Witness ==
    /\ PbmHasCmap
    /\ args.kind = "mne"
    /\ \E i, j \in 1 .. CmapN :
          /\ RLt(MnePos(i, args.ctrl_pts), Zero)
          /\ MnePos(j, args.ctrl_pts) = RNeg(MnePos(i, args.ctrl_pts))
          /\ RLt(Zero, cmap[i].a) /\ RLt(cmap[i].a, One)

\* the colour an overlay of hemisphere h has when it shows the slider's time
\* index through the current cmap, k and b
CurrentColor(h) ==
    [v \in 1 .. HemiLen(h) |->
        LET d == DataAt(slider, IF h = "lh" THEN v ELSE NLh + v)
            x == RAdd(RMul(k, IntR(d)), b)
        IN  CmapCall(cmap, x)]

\* C1: with time_viewer and colorbar, after any slider changes and updates,
\* every overlay mesh of the plot has the colour cmap(k * d + b) of its
\* hemisphere's data d at the slider's time index
C1_MeshesCurrent ==
    ButtonLive =>
        \A n \in 1 .. Len(meshes) : meshes[n].color = CurrentColor(meshes[n].h)

\* the same for a plot whose views are all different
C1_MeshesCurrentDistinctViews ==
    (ButtonLive /\ \A i, j \in 1 .. Len(views) : views[i] = views[j] => i = j)
        => \A n \in 1 .. Len(meshes) :
              meshes[n].color = CurrentColor(meshes[n].h)

\* C2: an 'Update mesh' click with values that are not fmin < fmid < fmax
\* raises ValueError and leaves cmap, k, b, every overlay mesh colour and
\* the colorbar marks as they were
C2_BadUpdateKeepsState ==
    [][(\E f \in (0 .. MaxCtrl) \X (0 .. MaxCtrl) \X (0 .. MaxCtrl) :
            ~(f[1] < f[2] /\ f[2] < f[3]) /\ on_update(f)) =>
          /\ exc' = Raise("ValueError", 630)
          /\ cmap' = cmap /\ k' = k /\ b' = b
          /\ meshes' = meshes
          /\ cbar_marks' = cbar_marks]_vars

\* a rejected click on a plot whose colormap an earlier click had replaced
C2_Witness ==
    /\ ButtonLive
    /\ exc = Raise("ValueError", 630)
    /\ cmap # calculate_cmap(args.kind, args.ctrl_pts,
                             ScalePts(args.kind, args.ctrl_pts))
    /\ Len(meshes) > 0

\* the colorbar figure is among the displayed widgets
ColorbarShown ==
    \E i \in 1 .. Len(children) :
        \E j \in 1 .. Len(children[i].sub) : children[i].sub[j] = "cbar_fig"

\* C3: a call of plot_source_estimates with colorbar=True that returns has
\* put a colorbar on the scene, with or without the time viewer
C3_ColorbarDisplayed ==
    (phase = "pse" /\ ret.returned /\ args.colorbar) => ColorbarShown

\* the arguments pass every check made before the figures are built
PseArgsValid ==
    /\ args.stc_ok
    /\ ~(\E i \in 1 .. Len(views) : views[i] \notin ViewNames)
    /\ args.hemi \in {"lh", "rh", "split", "both"}

\* C4: a call with time_label=None and time_viewer=True returns normally
\* with the time controls shown and no label; the unassigned label is never
\* read
C4_NoLabelCompletes ==
    (phase = "pse" /\ PseArgsValid /\ args.time_viewer
        /\ args.time_label = "None") =>
        /\ ret.returned
        /\ exc.type # "UnboundLocalError"
        /\ \E i \in 1 .. Len(children) :
              children[i].w \in {"control", "info_widget"}

\* C5: plot_brain_mesh with act_data=None and one or both hemispheres given
\* returns (fig, rh_mesh, lh_mesh) without error, the meshes plain, and
\* rh_mesh (lh_mesh) None exactly when its vertices or faces were not given
C5_PlainMeshesReturned ==
    (phase = "pbm" /\ args.act_data.none
        /\ ((args.rh_vertices /\ args.rh_faces)
            \/ (args.lh_vertices /\ args.lh_faces))) =>
        /\ exc = NoExc
        /\ ret.returned
        /\ ret.rh_mesh.none <=> ~(args.rh_vertices /\ args.rh_faces)
        /\ ret.lh_mesh.none <=> ~(args.lh_vertices /\ args.lh_faces)
        /\ meshes = <<>>

\* the names the caller asked for
Requested ==
    IF args.views.tag = "str" THEN {args.views.name}
    ELSE {args.views.items[i] : i \in 1 .. Len(args.views.items)}

\* the call of plot_source_estimates ended by raising a ValueError
CallRaisedValueError ==
    phase = "pse" /\ ~ret.returned /\ exc.type = "ValueError"

\* C6 as stated: given a valid stc, the call raises ValueError exactly when
\* some requested view is none of the eight view names
C6_ValueErrorIffBadView ==
    (phase = "pse" /\ args.stc_ok) =>
        (CallRaisedValueError <=> \E v \in Requested : v \notin ViewNames)

\* C6 amended: given a valid stc, the call raises the ValueError of the
\* views check exactly when some requested view is none of the eight view
\* names, and a single name is handled as a one-element sequence
C6_ViewsCheckIffBadView ==
    (phase = "pse" /\ args.stc_ok) =>
        /\ (~ret.returned /\ exc = Raise("ValueError", 365))
              <=> \E v \in Requested : v \notin ViewNames
        /\ args.views.tag = "str" => views = <<args.views.name>>
        /\ (ret.returned /\ args.views.tag # "str") => views = args.views.items

\* a list whose first view is valid and whose last is not was rejected, and
\* so was a single unknown name
C6_Witness ==
    /\ phase = "pse" /\ args.stc_ok
    /\ exc = Raise("ValueError", 365)
    /\ \/ /\ args.views.tag = "list"
          /\ Len(args.views.items) > 1
          /\ args.views.items[1] \in ViewNames
       \/ args.views.tag = "str"

====
